---- MODULE Spec2Model ----
(***************************************************************************)
(* A model of libglusterfs/src/event-epoll.c: the epoll based event pool.  *)
(*                                                                         *)
(* Threads of the model:                                                   *)
(*   - the poller threads (event_dispatch_epoll_worker), one per roster    *)
(*     index 1..EVENT_MAX_THREADS, plus the single worker that is past the *)
(*     retirement critical section (poller_death_sliced admits one);       *)
(*   - one application thread calling event_register, event_unregister,    *)
(*     event_unregister_close and event_select_on;                         *)
(*   - one thread calling event_handled for handler invocations that were  *)
(*     made (from inside the handler or later, as the registrant likes);   *)
(*   - the thread that called event_dispatch, and callers of               *)
(*     event_reconfigure_threads.                                          *)
(*                                                                         *)
(* Atomicity: one step is one atomic operation of the code: an atomic      *)
(* increment or decrement of ref, one critical section of the pool mutex,  *)
(* one critical section of a slot lock, one system call, one handler call. *)
(* The decrement of ref to zero is taken together with the slot-lock       *)
(* section that follows it in event_slot_unref (it reads fd and do_close). *)
(***************************************************************************)
EXTENDS Integers, Sequences, FiniteSets, Bags, TLC

(***************************************************************************)
(* Bounds.  The table geometry and the roster size are program constants   *)
(* of gf-event.h (1024 each), scaled down.                                 *)
(***************************************************************************)
EVENT_EPOLL_TABLES == 2

EVENT_EPOLL_SLOTS == 2

EVENT_MAX_THREADS == 4

\* calls of event_register the application makes: in SpecCapacity, and in
\* the other specifications
MaxRegister == 3

MainRegister == 2

\* calls of event_select_on the application makes
MaxSelect == 1

\* calls of event_reconfigure_threads
MaxReconf == 2

\* the pollers event_pool_new configures in Spec, SpecTwo and SpecRetire
MainPollers == 1

TwoPollers == 2

RetirePollers == 3

\* the file descriptors the application registers: in SpecCapacity, and in
\* the other specifications
Fds == {7, 9}

MainFds == {7}

NSlots == EVENT_EPOLL_TABLES * EVENT_EPOLL_SLOTS

Handles == 0 .. (NSlots - 1)

Tables == 0 .. (EVENT_EPOLL_TABLES - 1)

Pollers == 1 .. EVENT_MAX_THREADS

\* EPOLLPRI | EPOLLHUP | EPOLLERR | EPOLLONESHOT
BaseEvents == {"PRI", "HUP", "ERR", "ONESHOT"}

NoEvent == [idx |-> -1, gen |-> -1, bits |-> {}]

VARIABLES
    slot,      \* event_pool->ereg[t][j], by handle t * EVENT_EPOLL_SLOTS + j
    ereg,      \* ereg[t]: the table t is allocated
    pool,      \* the pool's fields protected by event_pool->mutex
    kern,      \* the kernel: per fd, open / on the epoll interest list / armed / payload
    wk,        \* the poller thread of each roster index: its position and locals
    dying,     \* the poller that is past the retirement critical section
    app,       \* the application thread: the call in progress and its locals
    hnd,       \* the thread calling event_handled
    disp,      \* the thread that called event_dispatch
    inprog,    \* bag of handler invocations made and not yet reported by event_handled
    hist       \* history: what the checks need to remember

vars == <<slot, ereg, pool, kern, wk, dying, app, hnd, disp, inprog, hist>>

(***************************************************************************)
(* Helpers on sequences (the poller_death lists).                          *)
(***************************************************************************)
SeqToSet(s) == {s[k] : k \in 1 .. Len(s)}

SeqRemove(s, x) == SelectSeq(s, LAMBDA y : y # x)

Min(S) == CHOOSE x \in S : \A y \in S : x <= y

\* the element after x in list s, -1 at the end
SeqNext(s, x) ==
    LET k == CHOOSE n \in 1 .. Len(s) : s[n] = x
    IN IF k = Len(s) THEN -1 ELSE s[k + 1]

TableOf(idx) == idx \div EVENT_EPOLL_SLOTS

BaseOf(idx) == TableOf(idx) * EVENT_EPOLL_SLOTS

(***************************************************************************)
(* The slot table.                                                         *)
(***************************************************************************)
\* a slot of a table fresh from __event_newtable: calloc, then fd = -1
\* lock: the thread inside LOCK(&slot->lock) ... UNLOCK, "free" otherwise
FreshSlot ==
    [fd |-> -1, gen |-> 0, ref |-> 0, events |-> {}, do_close |-> FALSE,
     in_handler |-> 0, handled_error |-> FALSE, slots_used |-> 0,
     lock |-> "free"]

event_slot_ref(sl, idx) == [sl EXCEPT ![idx].ref = @ + 1]

\* __slot_update_events: tri-valued poll_in / poll_out
slot_update_events(events, poll_in, poll_out) ==
    LET e1 == IF poll_in = 1 THEN events \cup {"IN"}
              ELSE IF poll_in = 0 THEN events \ {"IN"}
              ELSE events
    IN IF poll_out = 1 THEN e1 \cup {"OUT"}
       ELSE IF poll_out = 0 THEN e1 \ {"OUT"}
       ELSE e1

\* the free slots of table t
FreeIn(sl, t) ==
    {j \in 0 .. (EVENT_EPOLL_SLOTS - 1) : sl[t * EVENT_EPOLL_SLOTS + j].fd = -1}

\* __event_slot_alloc, the search: the handle chosen, -1 when a table reports
\* full, -2 when the search runs past the last table (table == NULL is
\* dereferenced).  slots_used is the field of the table's slot 0.
RECURSIVE event_slot_find(_, _, _)
event_slot_find(sl, er, i) ==
    IF i >= EVENT_EPOLL_TABLES THEN -2
    ELSE IF er[i] /\ sl[i * EVENT_EPOLL_SLOTS].slots_used = EVENT_EPOLL_SLOTS THEN -1
    ELSE IF FreeIn(sl, i) = {} THEN event_slot_find(sl, er, i + 1)
    ELSE i * EVENT_EPOLL_SLOTS + Min(FreeIn(sl, i))

\* __event_slot_alloc, the slot taken: everything wiped except gen, which is
\* bumped; the wipe of slot 0 wipes the table's slots_used with it; then
\* slots_used++ and the registration's reference.
event_slot_take(sl, idx, fd) ==
    LET wiped == [sl EXCEPT ![idx] = [FreshSlot EXCEPT !.fd = fd,
                                                      !.gen = sl[idx].gen + 1]]
        counted == [wiped EXCEPT ![BaseOf(idx)].slots_used = @ + 1]
    IN event_slot_ref(counted, idx)

\* __event_slot_dealloc on the slot array
event_slot_dealloc(sl, idx) ==
    LET cleared == [sl EXCEPT ![idx].gen = @ + 1,
                              ![idx].fd = -1,
                              ![idx].handled_error = FALSE,
                              ![idx].in_handler = 0]
    IN IF sl[idx].fd # -1
       THEN [cleared EXCEPT ![BaseOf(idx)].slots_used = @ - 1]
       ELSE cleared

\* event_slot_unref up to its UNLOCK: the decrement and, when it reached
\* zero, the slot-lock section that captures fd and do_close
event_slot_unref(sl, idx) ==
    LET r == sl[idx].ref - 1
    IN [slot |-> [sl EXCEPT ![idx].ref = r,
                            ![idx].do_close = IF r = 0 THEN FALSE ELSE @],
        zero |-> (r = 0),
        fd |-> sl[idx].fd,
        do_close |-> (r = 0 /\ sl[idx].do_close)]

(***************************************************************************)
(* The kernel's epoll instance.                                            *)
(***************************************************************************)
KernFd == [open |-> TRUE, reg |-> FALSE, armed |-> FALSE, ev |-> {},
           idx |-> -1, gen |-> -1]

\* epoll_ctl(EPOLL_CTL_ADD) succeeds
CanAdd(fd) == kern[fd].open /\ ~kern[fd].reg

\* epoll_ctl(EPOLL_CTL_MOD) and epoll_ctl(EPOLL_CTL_DEL) succeed
CanMod(fd) == fd \in Fds /\ kern[fd].open /\ kern[fd].reg

\* ADD and MOD arm the fd with the mask and the payload (idx, gen)
KernArm(k, fd, ev, idx, gen) ==
    [k EXCEPT ![fd] = [open |-> TRUE, reg |-> TRUE, armed |-> TRUE, ev |-> ev,
                       idx |-> idx, gen |-> gen]]

KernDel(k, fd) == [k EXCEPT ![fd] = KernFd]

\* close(fd): the fd leaves the interest list
sys_close(k, fd) ==
    IF fd \in Fds THEN [k EXCEPT ![fd] = [KernFd EXCEPT !.open = FALSE]] ELSE k

\* the readiness masks one arming can report: one of the armed bits, or an error
FiredSets(ev) == {{b} : b \in ev \cap {"IN", "OUT", "ERR"}}

(***************************************************************************)
(* Thread records.                                                         *)
(***************************************************************************)
\* a poller thread that does not exist
\* todo: the lock operations the thread has still to make (SpecLocks)
NoWorker == [pc |-> "none", ev |-> NoEvent, fd |-> -1, dc |-> FALSE,
             todo |-> <<>>]

NoDying == [pc |-> "none", index |-> 0, gen |-> 0, list |-> <<>>, cur |-> -1,
            taken |-> <<>>, calls |-> <<>>]

\* used: the table's slots_used when event_register was entered, kept while
\* the call runs
AppIdle == [pc |-> "idle", op |-> "none", idx |-> -1, fd |-> -1, gen |-> -1,
            close |-> FALSE, n |-> 0, dc |-> FALSE, ret |-> 0, used |-> -1,
            todo |-> <<>>]

HndIdle == [pc |-> "idle", idx |-> -1, fd |-> -1, gen |-> -1, ufd |-> -1,
            dc |-> FALSE, ret |-> 0, todo |-> <<>>]

\* event_pool_new_epoll: table 0 allocated, nothing registered, no poller;
\* mutex: the thread that holds event_pool->mutex, "free" otherwise
PoolNew(eventthreadcount) ==
    [destroy |-> FALSE,
     mutex |-> "free",
     eventthreadcount |-> eventthreadcount,
     activethreadcount |-> 0,
     poller_gen |-> 0,
     poller_death_sliced |-> FALSE,
     pollers |-> [i \in Pollers |-> FALSE],
     poller_death |-> <<>>]

\* regs: the registrations the application holds (register returned the
\* handle, unregister was not called); given: the fds handed to
\* event_unregister_close; unregd: the (handle, gen) whose unregister returned;
\* deferred: the (handle, gen) for which event_select_on found in_handler > 0;
\* errd: the (handle, gen) whose handler was called for an error or hangup;
\* failed: the (handle, gen) of the event_register calls whose ADD failed;
\* undetached: the (handle, gen) of the unregister calls whose DEL failed;
\* gone: the handles whose unregister has returned and that no event_register
\* has taken since; notify: the handles last taken with notify_poller_death;
\* during: the handles registered with notify_poller_death, or whose
\* unregister returned, while the poller-death list was spliced out, with the
\* poller_gen of that retirement
HistNew == [nreg |-> 0, nsel |-> 0, nrec |-> 0, regs |-> {}, given |-> {},
            unregd |-> {}, deferred |-> {}, errd |-> {}, failed |-> {},
            undetached |-> {}, gone |-> {}, notify |-> {}, during |-> {}]

InitWith(eventthreadcount) ==
    /\ slot = [h \in Handles |-> FreshSlot]
    /\ ereg = [t \in Tables |-> t = 0]
    /\ pool = PoolNew(eventthreadcount)
    /\ kern = [fd \in Fds |-> KernFd]
    /\ wk = [i \in Pollers |-> NoWorker]
    /\ dying = NoDying
    /\ app = AppIdle
    /\ hnd = HndIdle
    /\ disp = "idle"
    /\ inprog = EmptyBag
    /\ hist = HistNew

\* the process is running: no assert() has failed, no NULL table was dereferenced
Running == app.pc \notin {"abort", "segv"} /\ hnd.pc # "abort"

\* list_del_init(&slot->poller_death) of __event_slot_dealloc, on whichever
\* list holds the slot
ListsWithout(idx) ==
    /\ pool' = [pool EXCEPT !.poller_death = SeqRemove(@, idx)]
    /\ dying' = [dying EXCEPT !.list = SeqRemove(@, idx)]

(***************************************************************************)
(* event_register_epoll                                                    *)
(***************************************************************************)
\* the history after an event_register call that took the slot idx (or none,
\* idx < 0)
HistTake(idx, notify_poller_death) ==
    [hist EXCEPT !.nreg = @ + 1,
                 !.gone = @ \ {idx},
                 !.notify = IF idx < 0 THEN @
                            ELSE IF notify_poller_death THEN @ \cup {idx}
                            ELSE @ \ {idx},
                 !.during = IF idx >= 0 /\ notify_poller_death
                               /\ pool.poller_death_sliced
                            THEN @ \cup {[idx |-> idx, pgen |-> pool.poller_gen]}
                            ELSE @]

\* a pool-mutex section that allocates without looking at destroy: not what
\* the code does
RegisterUnchecked(fd, notify_poller_death) ==
    /\ Running
    /\ app.pc = "idle"
    /\ hist.nreg < MaxRegister
    /\ fd \notin hist.given
    /\ hist' = HistTake(event_slot_find(slot, ereg, 0), notify_poller_death)
    /\ LET idx == event_slot_find(slot, ereg, 0)
       IN IF idx < 0
          THEN /\ app' = [AppIdle EXCEPT !.op = "register", !.ret = -1]
               /\ UNCHANGED <<slot, ereg, pool>>
          ELSE /\ slot' = event_slot_take(slot, idx, fd)
               /\ ereg' = [ereg EXCEPT ![TableOf(idx)] = TRUE]
               /\ pool' = IF notify_poller_death
                          THEN [pool EXCEPT !.poller_death = Append(@, idx)]
                          ELSE pool
               /\ app' = [AppIdle EXCEPT !.pc = "reg_arm", !.op = "register",
                                         !.idx = idx, !.fd = fd,
                                         !.used = slot[BaseOf(idx)].slots_used]
    /\ UNCHANGED <<kern, wk, dying, hnd, disp, inprog>>

\* the pool-mutex section: the destroy check and __event_slot_alloc
Register(fd, notify_poller_death) ==
    /\ Running
    /\ app.pc = "idle"
    /\ hist.nreg < MaxRegister
    /\ fd \notin hist.given
    /\ hist' = IF pool.destroy
               THEN [hist EXCEPT !.nreg = @ + 1]
               ELSE HistTake(event_slot_find(slot, ereg, 0), notify_poller_death)
    /\ LET idx == event_slot_find(slot, ereg, 0)
       IN IF pool.destroy \/ idx = -1
          THEN /\ app' = [AppIdle EXCEPT !.op = "register", !.ret = -1]
               /\ UNCHANGED <<slot, ereg, pool>>
          ELSE IF idx = -2
          THEN /\ app' = [AppIdle EXCEPT !.op = "register", !.pc = "segv"]
               /\ UNCHANGED <<slot, ereg, pool>>
          ELSE /\ slot' = event_slot_take(slot, idx, fd)
               /\ ereg' = [ereg EXCEPT ![TableOf(idx)] = TRUE]
               /\ pool' = IF notify_poller_death
                          THEN [pool EXCEPT !.poller_death = Append(@, idx)]
                          ELSE pool
               /\ app' = [AppIdle EXCEPT !.pc = "reg_arm", !.op = "register",
                                         !.idx = idx, !.fd = fd,
                                         !.used = slot[BaseOf(idx)].slots_used]
    /\ UNCHANGED <<kern, wk, dying, hnd, disp, inprog>>

\* assert(slot->fd == fd), then the slot-lock section: the mask and
\* epoll_ctl(EPOLL_CTL_ADD) with the payload (idx, slot->gen)
RegisterArm(poll_in, poll_out) ==
    /\ Running
    /\ app.pc = "reg_arm"
    /\ LET idx == app.idx
           ev == slot_update_events(BaseEvents, poll_in, poll_out)
       IN IF slot[idx].fd # app.fd
          THEN /\ app' = [app EXCEPT !.pc = "abort"]
               /\ UNCHANGED <<slot, kern, hist>>
          ELSE /\ slot' = [slot EXCEPT ![idx].events = ev]
               /\ IF CanAdd(app.fd)
                  THEN /\ kern' = KernArm(kern, app.fd, ev, idx, slot[idx].gen)
                       /\ app' = [AppIdle EXCEPT !.op = "register", !.ret = idx]
                       /\ hist' = [hist EXCEPT !.regs = @ \cup
                                     {[idx |-> idx, fd |-> app.fd,
                                       gen |-> slot[idx].gen]}]
                  ELSE /\ app' = [app EXCEPT !.pc = "unref", !.n = 1, !.ret = -1]
                       /\ hist' = [hist EXCEPT !.failed = @ \cup
                                     {[idx |-> idx, gen |-> slot[idx].gen]}]
                       /\ UNCHANGED kern
    /\ UNCHANGED <<ereg, pool, wk, dying, hnd, disp, inprog>>

(***************************************************************************)
(* event_unregister_epoll_common                                           *)
(***************************************************************************)
\* event_slot_get of a registration the application holds
Unregister(reg, do_close) ==
    /\ Running
    /\ app.pc = "idle"
    /\ reg \in hist.regs
    /\ slot' = event_slot_ref(slot, reg.idx)
    /\ app' = [AppIdle EXCEPT !.pc = "unreg_lock", !.op = "unregister",
                              !.idx = reg.idx, !.fd = reg.fd, !.gen = reg.gen,
                              !.close = do_close]
    /\ hist' = [hist EXCEPT !.regs = @ \ {reg},
                             !.given = IF do_close THEN @ \cup {reg.fd} ELSE @]
    /\ UNCHANGED <<ereg, pool, kern, wk, dying, hnd, disp, inprog>>

\* assert(slot->fd == fd), then the slot-lock section: epoll_ctl(EPOLL_CTL_DEL)
\* and, when it succeeded, do_close and gen++
UnregisterLock ==
    /\ Running
    /\ app.pc = "unreg_lock"
    /\ IF slot[app.idx].fd # app.fd
       THEN /\ app' = [app EXCEPT !.pc = "abort"]
            /\ UNCHANGED <<slot, kern, hist>>
       ELSE IF CanMod(app.fd)
       THEN /\ kern' = KernDel(kern, app.fd)
            /\ slot' = [slot EXCEPT ![app.idx].do_close = app.close,
                                    ![app.idx].gen = @ + 1]
            /\ app' = [app EXCEPT !.pc = "unref", !.n = 2, !.ret = 0]
            /\ UNCHANGED hist
       ELSE /\ app' = [app EXCEPT !.pc = "unref", !.n = 2, !.ret = -1]
            /\ hist' = [hist EXCEPT !.undetached = @ \cup
                          {[idx |-> app.idx, gen |-> app.gen]}]
            /\ UNCHANGED <<slot, kern>>
    /\ UNCHANGED <<ereg, pool, wk, dying, hnd, disp, inprog>>

(***************************************************************************)
(* event_select_on_epoll                                                   *)
(***************************************************************************)
SelectOn(reg) ==
    /\ Running
    /\ app.pc = "idle"
    /\ reg \in hist.regs
    /\ hist.nsel < MaxSelect
    /\ hist' = [hist EXCEPT !.nsel = @ + 1]
    /\ slot' = event_slot_ref(slot, reg.idx)
    /\ app' = [AppIdle EXCEPT !.pc = "sel_lock", !.op = "select_on",
                              !.idx = reg.idx, !.fd = reg.fd, !.gen = reg.gen]
    /\ UNCHANGED <<ereg, pool, kern, wk, dying, hnd, disp, inprog>>

\* assert(slot->fd == fd), then the slot-lock section: the mask is updated;
\* epoll_ctl(EPOLL_CTL_MOD) unless in_handler is set.  The call returns idx
\* whatever epoll_ctl returned.
SelectOnLock(poll_in, poll_out) ==
    /\ Running
    /\ app.pc = "sel_lock"
    /\ LET idx == app.idx
           ev == slot_update_events(slot[idx].events, poll_in, poll_out)
       IN IF slot[idx].fd # app.fd
          THEN /\ app' = [app EXCEPT !.pc = "abort"]
               /\ UNCHANGED <<slot, kern, hist>>
          ELSE /\ slot' = [slot EXCEPT ![idx].events = ev]
               /\ kern' = IF slot[idx].in_handler = 0 /\ CanMod(app.fd)
                          THEN KernArm(kern, app.fd, ev, idx, slot[idx].gen)
                          ELSE kern
               /\ app' = [app EXCEPT !.pc = "unref", !.n = 1, !.ret = idx]
               /\ hist' = IF slot[idx].in_handler > 0
                          THEN [hist EXCEPT !.deferred = @ \cup
                                  {[idx |-> idx, gen |-> slot[idx].gen]}]
                          ELSE hist
    /\ UNCHANGED <<ereg, pool, wk, dying, hnd, disp, inprog>>

(***************************************************************************)
(* event_slot_unref as called by the application thread (once by register  *)
(* after a failed ADD and by select_on, twice by unregister)               *)
(***************************************************************************)
\* what the application thread does after one event_slot_unref is complete
AppAfterUnref ==
    IF app.n > 1
    THEN /\ app' = [app EXCEPT !.pc = "unref", !.n = @ - 1]
         /\ UNCHANGED hist
    ELSE /\ app' = [AppIdle EXCEPT !.op = app.op, !.ret = app.ret]
         /\ hist' = IF app.op = "unregister"
                    THEN [hist EXCEPT !.unregd = @ \cup
                            {[idx |-> app.idx, gen |-> app.gen]},
                                      !.gone = @ \cup {app.idx},
                                      !.during = IF pool.poller_death_sliced
                                                 THEN @ \cup {[idx |-> app.idx,
                                                       pgen |-> pool.poller_gen]}
                                                 ELSE @]
                    ELSE hist

AppUnref ==
    /\ Running
    /\ app.pc = "unref"
    /\ LET u == event_slot_unref(slot, app.idx)
       IN /\ slot' = u.slot
          /\ IF u.zero
             THEN /\ app' = [app EXCEPT !.pc = "dealloc", !.fd = u.fd,
                                        !.dc = u.do_close]
                  /\ UNCHANGED hist
             ELSE AppAfterUnref
    /\ UNCHANGED <<ereg, pool, kern, wk, dying, hnd, disp, inprog>>

\* event_slot_dealloc: the pool-mutex section
AppDealloc ==
    /\ Running
    /\ app.pc = "dealloc"
    /\ slot' = event_slot_dealloc(slot, app.idx)
    /\ ListsWithout(app.idx)
    /\ IF app.dc
       THEN /\ app' = [app EXCEPT !.pc = "close"]
            /\ UNCHANGED hist
       ELSE AppAfterUnref
    /\ UNCHANGED <<ereg, kern, wk, hnd, disp, inprog>>

\* sys_close(fd) when do_close was set
AppClose ==
    /\ Running
    /\ app.pc = "close"
    /\ kern' = sys_close(kern, app.fd)
    /\ AppAfterUnref
    /\ UNCHANGED <<slot, ereg, pool, wk, dying, hnd, disp, inprog>>

(***************************************************************************)
(* event_handled_epoll                                                     *)
(***************************************************************************)
\* the registrant reports one of the handler invocations made: event_slot_get
Handled(tok) ==
    /\ Running
    /\ hnd.pc = "idle"
    /\ BagIn(tok, inprog)
    /\ slot' = event_slot_ref(slot, tok.idx)
    /\ hnd' = [HndIdle EXCEPT !.pc = "lock", !.idx = tok.idx, !.fd = tok.fd,
                              !.gen = tok.gen]
    /\ UNCHANGED <<ereg, pool, kern, wk, dying, app, disp, inprog, hist>>

\* a re-arm with the mask the kernel already holds for the fd instead of
\* slot->events: not what the code does
HandledRearmKernelMask(k, s, idx, fd, gen) ==
    IF gen = s.gen /\ s.in_handler = 0 /\ CanMod(fd)
    THEN KernArm(k, fd, k[fd].ev, idx, gen)
    ELSE k

\* a re-arm that does not compare the caller's gen with the slot's: not what
\* the code does
HandledRearmAnyGen(k, s, idx, fd, gen) ==
    IF s.in_handler = 0 /\ CanMod(fd)
    THEN KernArm(k, fd, s.events, idx, gen)
    ELSE k

\* the re-arm of event_handled_epoll: epoll_ctl(EPOLL_CTL_MOD) with the
\* slot's mask and the caller's gen, when gen is current and in_handler is 0
HandledRearm(k, s, idx, fd, gen) ==
    IF gen = s.gen /\ s.in_handler = 0 /\ CanMod(fd)
    THEN KernArm(k, fd, s.events, idx, gen)
    ELSE k

\* assert(slot->fd == fd), then the slot-lock section: in_handler--, and the
\* re-arm
HandledLock ==
    /\ Running
    /\ hnd.pc = "lock"
    /\ IF slot[hnd.idx].fd # hnd.fd
       THEN /\ hnd' = [hnd EXCEPT !.pc = "abort"]
            /\ UNCHANGED <<slot, kern, inprog>>
       ELSE /\ slot' = [slot EXCEPT ![hnd.idx].in_handler = @ - 1]
            /\ kern' = HandledRearm(kern, slot'[hnd.idx], hnd.idx, hnd.fd, hnd.gen)
            /\ inprog' = inprog (-) SetToBag({[idx |-> hnd.idx, fd |-> hnd.fd,
                                               gen |-> hnd.gen]})
            /\ hnd' = [hnd EXCEPT !.pc = "unref",
                         !.ret = IF hnd.gen = slot'[hnd.idx].gen
                                    /\ slot'[hnd.idx].in_handler = 0
                                    /\ ~CanMod(hnd.fd)
                                 THEN -1 ELSE 0]
    /\ UNCHANGED <<ereg, pool, wk, dying, app, disp, hist>>

HandledUnref ==
    /\ Running
    /\ hnd.pc = "unref"
    /\ LET u == event_slot_unref(slot, hnd.idx)
       IN /\ slot' = u.slot
          /\ hnd' = IF u.zero
                    THEN [hnd EXCEPT !.pc = "dealloc", !.ufd = u.fd, !.dc = u.do_close]
                    ELSE [HndIdle EXCEPT !.ret = hnd.ret]
    /\ UNCHANGED <<ereg, pool, kern, wk, dying, app, disp, inprog, hist>>

HandledDealloc ==
    /\ Running
    /\ hnd.pc = "dealloc"
    /\ slot' = event_slot_dealloc(slot, hnd.idx)
    /\ ListsWithout(hnd.idx)
    /\ hnd' = IF hnd.dc THEN [hnd EXCEPT !.pc = "close"]
              ELSE [HndIdle EXCEPT !.ret = hnd.ret]
    /\ UNCHANGED <<ereg, kern, wk, app, disp, inprog, hist>>

HandledClose ==
    /\ Running
    /\ hnd.pc = "close"
    /\ kern' = sys_close(kern, hnd.ufd)
    /\ hnd' = [HndIdle EXCEPT !.ret = hnd.ret]
    /\ UNCHANGED <<slot, ereg, pool, wk, dying, app, disp, inprog, hist>>

(***************************************************************************)
(* event_dispatch_epoll_worker: the loop and event_dispatch_epoll_handler  *)
(***************************************************************************)
\* the thread starts: activethreadcount++ under the pool mutex
WorkerStart(i) ==
    /\ Running
    /\ wk[i].pc = "start"
    /\ pool' = [pool EXCEPT !.activethreadcount = @ + 1]
    /\ wk' = [wk EXCEPT ![i].pc = "top"]
    /\ UNCHANGED <<slot, ereg, kern, dying, app, hnd, disp, inprog, hist>>

\* the retirement critical section after the wait on poller_death_sliced:
\* the roster entry is cleared, activethreadcount--, gen = ++poller_gen, every
\* slot on poller_death is referenced and the list is spliced out
Retire(i) ==
    LET list == pool.poller_death
        g == pool.poller_gen + 1
    IN /\ pool' = [pool EXCEPT !.pollers[i] = FALSE,
                               !.activethreadcount = @ - 1,
                               !.poller_gen = g,
                               !.poller_death = <<>>,
                               !.poller_death_sliced = TRUE]
       /\ slot' = [h \in Handles |->
                     IF h \in SeqToSet(list)
                     THEN [slot[h] EXCEPT !.ref = @ + 1] ELSE slot[h]]
       /\ dying' = [pc |-> "notify", index |-> i, gen |-> g, list |-> list,
                    cur |-> -1, taken |-> list, calls |-> <<>>]
       /\ wk' = [wk EXCEPT ![i] = NoWorker]

\* a loop top at which the joinable thread of index 1 never retires ("will
\* never die", says event_dispatch_epoll of it): not what the code does
LoopTopFirstStays(i) ==
    IF pool.eventthreadcount < i /\ i # 1
    THEN IF pool.poller_death_sliced
         THEN /\ wk' = [wk EXCEPT ![i].pc = "cond"]
              /\ UNCHANGED <<slot, pool, dying>>
         ELSE Retire(i)
    ELSE /\ wk' = [wk EXCEPT ![i].pc = "wait"]
         /\ UNCHANGED <<slot, pool, dying>>

\* the top of the loop: eventthreadcount < myindex, checked again under the
\* pool mutex; the thread waits on the condition while a retirement is on
LoopTop(i) ==
    IF pool.eventthreadcount < i
    THEN IF pool.poller_death_sliced
         THEN /\ wk' = [wk EXCEPT ![i].pc = "cond"]
              /\ UNCHANGED <<slot, pool, dying>>
         ELSE Retire(i)
    ELSE /\ wk' = [wk EXCEPT ![i].pc = "wait"]
         /\ UNCHANGED <<slot, pool, dying>>

WorkerLoopTop(i) ==
    /\ Running
    /\ wk[i].pc = "top"
    /\ LoopTop(i)
    /\ UNCHANGED <<ereg, kern, app, hnd, disp, inprog, hist>>

\* epoll_wait returned 0 or EINTR: continue, to the top of the loop
WorkerInterrupted(i) ==
    /\ Running
    /\ wk[i].pc = "wait"
    /\ pool.eventthreadcount < i
    /\ LoopTop(i)
    /\ UNCHANGED <<ereg, kern, app, hnd, disp, inprog, hist>>

\* pthread_cond_wait returns with poller_death_sliced clear: the thread goes
\* on with the retirement (eventthreadcount is not looked at again)
WorkerCondWake(i) ==
    /\ Running
    /\ wk[i].pc = "cond"
    /\ ~pool.poller_death_sliced
    /\ Retire(i)
    /\ UNCHANGED <<ereg, kern, app, hnd, disp, inprog, hist>>

\* epoll_wait returns one event of an armed fd; EPOLLONESHOT disarms it
WorkerWait(i, fd, bits) ==
    /\ Running
    /\ wk[i].pc = "wait"
    /\ kern[fd].reg /\ kern[fd].armed
    /\ bits \in FiredSets(kern[fd].ev)
    /\ kern' = [kern EXCEPT ![fd].armed = FALSE]
    /\ wk' = [wk EXCEPT ![i].pc = "got",
                        ![i].ev = [idx |-> kern[fd].idx, gen |-> kern[fd].gen,
                                   bits |-> bits]]
    /\ UNCHANGED <<slot, ereg, pool, dying, app, hnd, disp, inprog, hist>>

\* event_dispatch_epoll_handler: event_slot_get
WorkerGet(i) ==
    /\ Running
    /\ wk[i].pc = "got"
    /\ slot' = event_slot_ref(slot, wk[i].ev.idx)
    /\ wk' = [wk EXCEPT ![i].pc = "val"]
    /\ UNCHANGED <<ereg, pool, kern, dying, app, hnd, disp, inprog, hist>>

\* the checks without the one of handled_error: not what the code does
DispatchAcceptsErrors(s, ev) ==
    /\ s.fd # -1
    /\ ev.gen = s.gen
    /\ ~(s.in_handler > 0)

\* the checks of the slot-lock section: the handler is called for this event
DispatchAccepts(s, ev) ==
    /\ s.fd # -1
    /\ ev.gen = s.gen
    /\ ~(s.in_handler > 0)
    /\ ~s.handled_error

\* the slot-lock section of event_dispatch_epoll_handler
WorkerValidate(i) ==
    /\ Running
    /\ wk[i].pc = "val"
    /\ LET ev == wk[i].ev
           s == slot[ev.idx]
       IN IF DispatchAccepts(s, ev)
          THEN /\ slot' = [slot EXCEPT ![ev.idx].handled_error = ("ERR" \in ev.bits),
                                       ![ev.idx].in_handler = @ + 1]
               /\ wk' = [wk EXCEPT ![i].pc = "call", ![i].fd = s.fd]
          ELSE /\ wk' = [wk EXCEPT ![i].pc = "unref"]
               /\ UNCHANGED slot
    /\ UNCHANGED <<ereg, pool, kern, dying, app, hnd, disp, inprog, hist>>

\* handler(fd, idx, gen, data, poll_in, poll_out, poll_err, 0)
WorkerCall(i) ==
    /\ Running
    /\ wk[i].pc = "call"
    /\ inprog' = inprog (+) SetToBag({[idx |-> wk[i].ev.idx, fd |-> wk[i].fd,
                                       gen |-> wk[i].ev.gen]})
    /\ wk' = [wk EXCEPT ![i].pc = "unref"]
    /\ hist' = IF "ERR" \in wk[i].ev.bits
               THEN [hist EXCEPT !.errd = @ \cup
                       {[idx |-> wk[i].ev.idx, gen |-> wk[i].ev.gen]}]
               ELSE hist
    /\ UNCHANGED <<slot, ereg, pool, kern, dying, app, hnd, disp>>

\* event_slot_unref at the end of event_dispatch_epoll_handler
WorkerUnref(i) ==
    /\ Running
    /\ wk[i].pc = "unref"
    /\ LET u == event_slot_unref(slot, wk[i].ev.idx)
       IN /\ slot' = u.slot
          /\ wk' = IF u.zero
                   THEN [wk EXCEPT ![i].pc = "dealloc", ![i].fd = u.fd,
                                   ![i].dc = u.do_close]
                   ELSE [wk EXCEPT ![i] = [NoWorker EXCEPT !.pc = "top"]]
    /\ UNCHANGED <<ereg, pool, kern, dying, app, hnd, disp, inprog, hist>>

WorkerDealloc(i) ==
    /\ Running
    /\ wk[i].pc = "dealloc"
    /\ slot' = event_slot_dealloc(slot, wk[i].ev.idx)
    /\ ListsWithout(wk[i].ev.idx)
    /\ wk' = IF wk[i].dc
             THEN [wk EXCEPT ![i].pc = "close"]
             ELSE [wk EXCEPT ![i] = [NoWorker EXCEPT !.pc = "top"]]
    /\ UNCHANGED <<ereg, kern, app, hnd, disp, inprog, hist>>

WorkerClose(i) ==
    /\ Running
    /\ wk[i].pc = "close"
    /\ kern' = sys_close(kern, wk[i].fd)
    /\ wk' = [wk EXCEPT ![i] = [NoWorker EXCEPT !.pc = "top"]]
    /\ UNCHANGED <<slot, ereg, pool, dying, app, hnd, disp, inprog, hist>>

(***************************************************************************)
(* The retiring worker outside the pool mutex, and its last critical       *)
(* section.                                                                *)
(***************************************************************************)
\* slot->handler(slot->fd, 0, gen, slot->data, 0, 0, 0, 1)
DeathCallArgs(cur, gen) ==
    [slot |-> cur, fd |-> slot[cur].fd, idx |-> 0, gen |-> gen,
     poll_in |-> FALSE, poll_out |-> FALSE, poll_err |-> FALSE,
     poller_died |-> TRUE]

\* list_for_each_entry over poller_death_notify, outside the pool mutex: one
\* step reads the successor of the entry the walk stands on (the list head
\* at first, cur = -1) and calls its handler.  An entry that
\* __event_slot_dealloc unlinked while the walk stood on it (list_del_init)
\* is its own successor: the walk never meets the list head again and the
\* handler is called over and over (the model follows one call too many).
DeathWalkNext ==
    IF dying.cur = -1
    THEN IF dying.list = <<>> THEN -1 ELSE Head(dying.list)
    ELSE IF dying.cur \in SeqToSet(dying.list)
    THEN SeqNext(dying.list, dying.cur)
    ELSE dying.cur

WorkerDeathCall ==
    /\ Running
    /\ dying.pc = "notify"
    /\ Len(dying.calls) <= Len(dying.taken)
    /\ dying' = IF DeathWalkNext = -1
                THEN [dying EXCEPT !.pc = "finish"]
                ELSE [dying EXCEPT
                        !.calls = Append(@, DeathCallArgs(DeathWalkNext, dying.gen)),
                        !.cur = DeathWalkNext]
    /\ UNCHANGED <<slot, ereg, pool, kern, wk, app, hnd, disp, inprog, hist>>

\* list_for_each_entry_safe with __event_slot_unref, under the pool mutex:
\* the slots already walked are in done, the result is the slot array, the
\* kernel (sys_close when do_close) and the list that is left
RECURSIVE DeathUnrefAll(_, _, _, _)
DeathUnrefAll(list, sl, k, left) ==
    IF list = <<>> THEN [slot |-> sl, kern |-> k, list |-> left]
    ELSE LET idx == Head(list)
             u == event_slot_unref(sl, idx)
         IN IF u.zero
            THEN DeathUnrefAll(Tail(list), event_slot_dealloc(u.slot, idx),
                               IF u.do_close THEN sys_close(k, u.fd) ELSE k,
                               SeqRemove(left, idx))
            ELSE DeathUnrefAll(Tail(list), u.slot, k, left)

\* a second critical section that puts the private list back in place of
\* poller_death instead of splicing it in: not what the code does
WorkerDeathFinishOverwrites ==
    /\ Running
    /\ dying.pc = "finish"
    /\ LET r == DeathUnrefAll(dying.list, slot, kern, dying.list)
       IN /\ slot' = r.slot
          /\ kern' = r.kern
          /\ pool' = [pool EXCEPT !.poller_death = r.list,
                                  !.poller_death_sliced = FALSE]
    /\ dying' = NoDying
    /\ UNCHANGED <<ereg, wk, app, hnd, disp, inprog, hist>>

\* the second critical section of a retirement: the references are released,
\* the list is spliced back in front of poller_death, poller_death_sliced is
\* cleared; the thread exits
WorkerDeathFinish ==
    /\ Running
    /\ dying.pc = "finish"
    /\ LET r == DeathUnrefAll(dying.list, slot, kern, dying.list)
       IN /\ slot' = r.slot
          /\ kern' = r.kern
          /\ pool' = [pool EXCEPT !.poller_death = r.list \o @,
                                  !.poller_death_sliced = FALSE]
    /\ dying' = NoDying
    /\ UNCHANGED <<ereg, wk, app, hnd, disp, inprog, hist>>

(***************************************************************************)
(* event_dispatch_epoll                                                    *)
(***************************************************************************)
\* the count clamped to 1 .. EVENT_MAX_THREADS
ClampThreads(n) ==
    IF n > EVENT_MAX_THREADS THEN EVENT_MAX_THREADS
    ELSE IF n <= 0 THEN 1 ELSE n

\* an event_dispatch that does not count its caller in activethreadcount:
\* not what the code does
DispatchUncounted ==
    /\ Running
    /\ disp = "idle"
    /\ LET pollercount == ClampThreads(pool.eventthreadcount)
       IN /\ pool' = [pool EXCEPT
                        !.pollers = [i \in Pollers |-> @[i] \/ i <= pollercount]]
          /\ wk' = [i \in Pollers |->
                      IF i <= pollercount THEN [NoWorker EXCEPT !.pc = "start"]
                      ELSE wk[i]]
    /\ disp' = "spawned"
    /\ UNCHANGED <<slot, ereg, kern, dying, app, hnd, inprog, hist>>

\* the pool-mutex section: activethreadcount++ for the caller, and the
\* configured number of pollers is started (thread creation succeeds)
Dispatch ==
    /\ Running
    /\ disp = "idle"
    /\ LET pollercount == ClampThreads(pool.eventthreadcount)
       IN /\ pool' = [pool EXCEPT
                        !.activethreadcount = @ + 1,
                        !.pollers = [i \in Pollers |-> @[i] \/ i <= pollercount]]
          /\ wk' = [i \in Pollers |->
                      IF i <= pollercount THEN [NoWorker EXCEPT !.pc = "start"]
                      ELSE wk[i]]
    /\ disp' = "spawned"
    /\ UNCHANGED <<slot, ereg, kern, dying, app, hnd, inprog, hist>>

\* the thread of roster index 1 has exited
FirstPollerExited == wk[1].pc = "none" /\ ~(dying.pc # "none" /\ dying.index = 1)

\* if (event_pool->pollers[0] != 0) pthread_join(...)
DispatchJoin ==
    /\ Running
    /\ disp = "spawned"
    /\ disp' = IF pool.pollers[1] THEN "join" ELSE "joined"
    /\ UNCHANGED <<slot, ereg, pool, kern, wk, dying, app, hnd, inprog, hist>>

\* pthread_join returns
DispatchJoined ==
    /\ Running
    /\ disp = "join"
    /\ FirstPollerExited
    /\ disp' = "joined"
    /\ UNCHANGED <<slot, ereg, pool, kern, wk, dying, app, hnd, inprog, hist>>

\* activethreadcount-- under the pool mutex; event_dispatch_epoll returns
DispatchReturn ==
    /\ Running
    /\ disp = "joined"
    /\ pool' = [pool EXCEPT !.activethreadcount = @ - 1]
    /\ disp' = "done"
    /\ UNCHANGED <<slot, ereg, kern, wk, dying, app, hnd, inprog, hist>>

(***************************************************************************)
(* event_reconfigure_threads_epoll                                         *)
(***************************************************************************)
\* the thread count the call settles on
ReconfigureValue(value) == IF pool.destroy THEN 0 ELSE ClampThreads(value)

\* the roster indexes (1-based) at which the call starts a thread
ReconfigureSpawns(value) ==
    IF pool.pollers[1]
    THEN {i \in Pollers : /\ pool.eventthreadcount < i
                          /\ i <= ReconfigureValue(value)
                          /\ ~pool.pollers[i]}
    ELSE {}

Reconfigure(value) ==
    /\ Running
    /\ hist.nrec < MaxReconf
    /\ hist' = [hist EXCEPT !.nrec = @ + 1]
    /\ pool' = [pool EXCEPT
                  !.pollers = [i \in Pollers |-> @[i] \/ i \in ReconfigureSpawns(value)],
                  !.eventthreadcount = ReconfigureValue(value)]
    /\ wk' = [i \in Pollers |->
                IF i \in ReconfigureSpawns(value)
                THEN [NoWorker EXCEPT !.pc = "start"] ELSE wk[i]]
    /\ UNCHANGED <<slot, ereg, kern, dying, app, hnd, disp, inprog>>

\* destroy mode is entered (event_dispatch_destroy of event.c sets
\* event_pool->destroy under the pool mutex)
SetDestroy ==
    /\ Running
    /\ ~pool.destroy
    /\ pool' = [pool EXCEPT !.destroy = TRUE]
    /\ UNCHANGED <<slot, ereg, kern, wk, dying, app, hnd, disp, inprog, hist>>

(***************************************************************************)
(* The owner of an fd closes it itself while it is registered: close(2)    *)
(* takes the fd off the epoll interest list, and the epoll_ctl calls that  *)
(* follow for it fail with EBADF.                                          *)
(***************************************************************************)
OwnerClose(fd) ==
    /\ Running
    /\ kern[fd].open
    /\ fd \notin hist.given
    /\ \E reg \in hist.regs : reg.fd = fd
    /\ kern' = sys_close(kern, fd)
    /\ UNCHANGED <<slot, ereg, pool, wk, dying, app, hnd, disp, inprog, hist>>

(***************************************************************************)
(* Specifications.  The program is one; each specification runs it under   *)
(* one workload (the pollers configured, the calls the application makes). *)
(***************************************************************************)
\* the tokens of handler invocations the registrant can report
Tokens == BagToSet(inprog)

\* a poller thread dispatching events
PollNext(i) ==
    \/ WorkerStart(i)
    \/ WorkerLoopTop(i)
    \/ \E fd \in Fds : \E bits \in SUBSET {"IN", "OUT", "ERR"} :
           WorkerWait(i, fd, bits)
    \/ WorkerGet(i)
    \/ WorkerValidate(i)
    \/ WorkerCall(i)
    \/ WorkerUnref(i)
    \/ WorkerDealloc(i)

\* a poller thread that only starts, wakes up and retires
IdlePollNext(i) ==
    \/ WorkerStart(i)
    \/ WorkerLoopTop(i)
    \/ WorkerInterrupted(i)
    \/ WorkerCondWake(i)

DyingNext == WorkerDeathCall \/ WorkerDeathFinish

\* register and unregister, with the release of the slot
RegNext(notifies, closes) ==
    \/ \E fd \in MainFds : \E n \in notifies :
           hist.nreg < MainRegister /\ Register(fd, n)
    \/ RegisterArm(1, 0)
    \/ \E reg \in hist.regs : \E c \in closes : Unregister(reg, c)
    \/ UnregisterLock
    \/ AppUnref
    \/ AppDealloc

SelectNext ==
    \/ \E reg \in hist.regs : SelectOn(reg)
    \/ SelectOnLock(-1, 1)

HandledNext ==
    \/ \E tok \in Tokens : Handled(tok)
    \/ HandledLock
    \/ HandledUnref
    \/ HandledDealloc

\* Spec: one poller; the application registers, selects, unregisters (with
\* and without close) and closes its fd; the registrant reports the handler
\* invocations when it likes
Init == InitWith(MainPollers)

Next ==
    \/ Dispatch
    \/ DispatchJoin
    \/ \E i \in 1 .. MainPollers : PollNext(i)
    \/ \E i \in 1 .. MainPollers : WorkerClose(i)
    \/ RegNext({FALSE}, BOOLEAN)
    \/ AppClose
    \/ SelectNext
    \/ HandledNext
    \/ HandledClose
    \/ \E fd \in Fds : OwnerClose(fd)

Spec == Init /\ [][Next]_vars

\* SpecTwo: two pollers dispatching; the application registers and
\* unregisters (without close)
InitTwo == InitWith(TwoPollers)

NextTwo ==
    \/ Dispatch
    \/ DispatchJoin
    \/ \E i \in 1 .. TwoPollers : PollNext(i)
    \/ RegNext({FALSE}, {FALSE})
    \/ HandledNext

SpecTwo == InitTwo /\ [][NextTwo]_vars

\* SpecCapacity: no poller; the application registers two fds and
\* unregisters them, up to the capacity of the first table and beyond
NextCapacity ==
    \/ \E fd \in Fds : Register(fd, FALSE)
    \/ RegisterArm(1, 0)
    \/ \E reg \in hist.regs : \E c \in BOOLEAN : Unregister(reg, c)
    \/ UnregisterLock
    \/ AppUnref
    \/ AppDealloc
    \/ AppClose

SpecCapacity == Init /\ [][NextCapacity]_vars

\* SpecClosing: one poller dispatching; the application registers (with and
\* without notify_poller_death) and unregisters while destroy mode is entered
NextClosing ==
    \/ Dispatch
    \/ DispatchJoin
    \/ \E i \in 1 .. MainPollers : PollNext(i)
    \/ RegNext(BOOLEAN, {FALSE})
    \/ SetDestroy

SpecClosing == Init /\ [][NextClosing]_vars

\* SpecRetire: pollers that retire and are started again while the
\* application registers with notify_poller_death and unregisters
InitRetire == InitWith(RetirePollers)

NextRetire ==
    \/ Dispatch
    \/ DispatchJoin
    \/ \E i \in Pollers : IdlePollNext(i)
    \/ DyingNext
    \/ RegNext({TRUE}, BOOLEAN)
    \/ AppClose
    \/ \E v \in 1 .. RetirePollers : Reconfigure(v)

SpecRetire == InitRetire /\ [][NextRetire]_vars

\* SpecThreads: the life of the poller threads alone, with destroy mode
(***************************************************************************)
(* The locks.  In the specifications above a critical section is one step, *)
(* so every lock is free between steps.  SpecLocks runs the same           *)
(* operations with each LOCK / UNLOCK and pthread_mutex_lock / unlock as a *)
(* step of its own and nothing else: what a thread does is the sequence of *)
(* lock operations of the code path it takes.                              *)
(***************************************************************************)
\* the threads: the application, the caller of event_handled, a poller that
\* dispatches and a poller that retires
LockThreads == {"app", "hnd", "poll", "retire"}

\* the locks: event_pool->mutex and the locks of two slots
SlotLocks == {"s0", "s1"}

SlotOf(l) == IF l = "s0" THEN 0 ELSE 1

Acq(l) == <<"lock", l>>

Rel(l) == <<"unlock", l>>

\* LOCK(&slot->lock); ...; UNLOCK(&slot->lock);
SlotSection(l) == <<Acq(l), Rel(l)>>

\* pthread_mutex_lock(&event_pool->mutex); ...; pthread_mutex_unlock
PoolSection == <<Acq("pool"), Rel("pool")>>

\* event_slot_unref taking the slot lock and calling event_slot_dealloc
\* inside it, before the UNLOCK: not what the code does
UnrefLocksNested(l, zero) ==
    IF zero THEN <<Acq(l), Acq("pool"), Rel("pool"), Rel(l)>> ELSE <<>>

\* event_slot_unref: nothing when the count stays above zero; otherwise the
\* slot-lock section, and after it event_slot_dealloc with the pool mutex
UnrefLocks(l, zero) ==
    IF zero THEN SlotSection(l) \o PoolSection ELSE <<>>

\* __event_slot_unref, called with the pool mutex held: the slot-lock section
UnrefLockedLocks(l, zero) == IF zero THEN SlotSection(l) ELSE <<>>

\* event_register_epoll: the allocation under the pool mutex, the slot-lock
\* section with the ADD, and event_slot_unref when the ADD failed
RegisterLocks(l, failed) ==
    PoolSection \o SlotSection(l) \o UnrefLocks(l, failed)

\* event_unregister_epoll_common: the slot-lock section and two
\* event_slot_unref, of which the second can reach zero only if the first
\* did not
UnregisterLocks(l, z1, z2) ==
    SlotSection(l) \o UnrefLocks(l, z1) \o UnrefLocks(l, z2 /\ ~z1)

\* event_select_on_epoll, event_handled_epoll and
\* event_dispatch_epoll_handler: the slot-lock section and event_slot_unref
SectionThenUnref(l, zero) == SlotSection(l) \o UnrefLocks(l, zero)

\* a retirement: the first critical section, with or without a wait on the
\* condition (which gives the mutex up and takes it again), and the second
\* one with __event_slot_unref of the slots on the spliced-out list
RetireLocks(waits, z0, z1) ==
    (IF waits THEN <<Acq("pool"), Rel("pool"), Acq("pool"), Rel("pool")>>
     ELSE PoolSection)
    \o <<Acq("pool")>> \o UnrefLockedLocks("s0", z0)
    \o UnrefLockedLocks("s1", z1) \o <<Rel("pool")>>

\* the code paths of each thread
LockPrograms(t) ==
    IF t = "app"
    THEN {RegisterLocks(l, f) : l \in SlotLocks, f \in BOOLEAN}
         \cup {UnregisterLocks(l, z[1], z[2]) : l \in SlotLocks,
                                                z \in BOOLEAN \X BOOLEAN}
         \cup {SectionThenUnref(l, z) : l \in SlotLocks, z \in BOOLEAN}
    ELSE IF t \in {"hnd", "poll"}
    THEN {SectionThenUnref(l, z) : l \in SlotLocks, z \in BOOLEAN}
    ELSE {RetireLocks(w, z[1], z[2]) : w \in BOOLEAN, z \in BOOLEAN \X BOOLEAN}

Todo(t) ==
    IF t = "app" THEN app.todo
    ELSE IF t = "hnd" THEN hnd.todo
    ELSE IF t = "poll" THEN wk[1].todo
    ELSE wk[2].todo

SetTodo(t, prog) ==
    /\ app' = IF t = "app" THEN [app EXCEPT !.todo = prog] ELSE app
    /\ hnd' = IF t = "hnd" THEN [hnd EXCEPT !.todo = prog] ELSE hnd
    /\ wk' = IF t = "poll" THEN [wk EXCEPT ![1].todo = prog]
             ELSE IF t = "retire" THEN [wk EXCEPT ![2].todo = prog]
             ELSE wk

Owner(l) == IF l = "pool" THEN pool.mutex ELSE slot[SlotOf(l)].lock

SetOwner(l, t) ==
    IF l = "pool"
    THEN pool' = [pool EXCEPT !.mutex = t] /\ UNCHANGED slot
    ELSE slot' = [slot EXCEPT ![SlotOf(l)].lock = t] /\ UNCHANGED pool

\* the locks thread t holds
HeldBy(t) == {l \in SlotLocks \cup {"pool"} : Owner(l) = t}

\* thread t enters one of its code paths
LockBegin(t, prog) ==
    /\ Todo(t) = <<>>
    /\ prog \in LockPrograms(t)
    /\ prog # <<>>
    /\ SetTodo(t, prog)
    /\ UNCHANGED <<slot, ereg, pool, kern, dying, disp, inprog, hist>>

\* thread t can make its next lock operation: the lock it wants is free
CanLockStep(t) ==
    /\ Todo(t) # <<>>
    /\ Head(Todo(t))[1] = "lock" => Owner(Head(Todo(t))[2]) = "free"

\* thread t takes the lock it was waiting for
LockAcquire(t) ==
    /\ Todo(t) # <<>>
    /\ Head(Todo(t))[1] = "lock"
    /\ Owner(Head(Todo(t))[2]) = "free"
    /\ SetOwner(Head(Todo(t))[2], t)
    /\ SetTodo(t, Tail(Todo(t)))
    /\ UNCHANGED <<ereg, kern, dying, disp, inprog, hist>>

\* thread t releases a lock
LockRelease(t) ==
    /\ Todo(t) # <<>>
    /\ Head(Todo(t))[1] = "unlock"
    /\ SetOwner(Head(Todo(t))[2], "free")
    /\ SetTodo(t, Tail(Todo(t)))
    /\ UNCHANGED <<ereg, kern, dying, disp, inprog, hist>>

NextLocks ==
    \/ \E t \in LockThreads : \E prog \in LockPrograms(t) : LockBegin(t, prog)
    \/ \E t \in LockThreads : LockAcquire(t)
    \/ \E t \in LockThreads : LockRelease(t)

SpecLocks == InitTwo /\ [][NextLocks]_vars

\* SpecRegistry: as SpecRetire, with registrations made with and without
\* notify_poller_death and plain unregister
NextRegistry ==
    \/ Dispatch
    \/ DispatchJoin
    \/ \E i \in Pollers : IdlePollNext(i)
    \/ DyingNext
    \/ RegNext(BOOLEAN, {FALSE})
    \/ \E v \in 1..RetirePollers : Reconfigure(v)

SpecRegistry == InitRetire /\ [][NextRegistry]_vars

InitThreads == \E n \in 1 .. EVENT_MAX_THREADS : InitWith(n)

NextThreads ==
    \/ Dispatch
    \/ DispatchJoin
    \/ DispatchJoined
    \/ DispatchReturn
    \/ \E i \in Pollers : IdlePollNext(i)
    \/ DyingNext
    \/ \E v \in 0 .. (EVENT_MAX_THREADS + 1) : Reconfigure(v)
    \/ SetDestroy

SpecThreads == InitThreads /\ [][NextThreads]_vars

\* FairThreads: SpecThreads with every thread that can take a step of the
\* code taking it in the end.  The calls of the application (dispatch,
\* reconfigure_threads, destroy mode) need not come, and a poller blocked in
\* epoll_wait, which has no timeout, need not be woken.
SchedFair ==
    /\ \A i \in Pollers : WF_vars(WorkerStart(i))
    /\ \A i \in Pollers : WF_vars(WorkerLoopTop(i))
    /\ \A i \in Pollers : WF_vars(WorkerCondWake(i))
    /\ WF_vars(DyingNext)
    /\ WF_vars(DispatchJoin)
    /\ WF_vars(DispatchJoined)
    /\ WF_vars(DispatchReturn)

FairThreads == SpecThreads /\ SchedFair

\* every poller blocked in epoll_wait is woken in the end (an event, a
\* signal)
WakeFair == \A i \in Pollers : WF_vars(WorkerInterrupted(i))

(***************************************************************************)
(* The claims.                                                             *)
(***************************************************************************)
\* a handler invocation the registrant has not reported with event_handled
InProgress(tok) == CopiesIn(tok, inprog)

\* C1 (single-handler exclusion): for one registration (handle, fd, gen) at
\* most one handler invocation is in progress at any time; a second one
\* begins only after event_handled was called for the first.
C1_SingleHandler == \A tok \in Tokens : InProgress(tok) <= 1

\* C2 (stale filtering): once unregister or unregister_close of a
\* registration (handle, gen) has returned, no poller invokes the handler
\* with that handle and that generation, however far a dispatch had got.
C2_StaleFiltering ==
    [][\A u \in hist.unregd : \A fd \in Fds :
         LET tok == [idx |-> u.idx, fd |-> fd, gen |-> u.gen]
         IN CopiesIn(tok, inprog') <= CopiesIn(tok, inprog)]_vars

\* the step is an __event_slot_dealloc of slot h: the fd is reset to -1 and
\* gen is bumped
Deallocated(h) == slot'[h].fd = -1 /\ slot'[h].gen = slot[h].gen + 1

\* C4 (reference safety): no slot is deallocated while its reference count
\* is greater than zero, whatever lookups and retirements interleave with
\* the release that dropped the count to zero.
C4_ReferenceSafety == [][\A h \in Handles : Deallocated(h) => slot'[h].ref = 0]_vars

\* C5 (live registrations keep their slot): the slot of every registration
\* that register returned and that was not unregistered holds the
\* registered fd and at least one reference.
C5_LiveRegistration ==
    \A reg \in hist.regs : slot[reg.idx].fd = reg.fd /\ slot[reg.idx].ref >= 1

\* poller i is dispatching an event whose payload is of an earlier
\* generation of the slot that registration reg now occupies
StaleFor(i, reg) ==
    /\ wk[i].ev.idx = reg.idx
    /\ wk[i].ev.gen >= 0
    /\ wk[i].ev.gen < reg.gen

\* C3 (slot reuse): the dispatch of a kernel event that carries the payload
\* (h, g1) of an earlier registration of slot h never invokes the handler of
\* the registration that reuses the slot, and leaves in_handler and
\* handled_error of the slot unchanged.
C3_SlotReuse ==
    [][\A i \in Pollers : \A reg \in hist.regs :
         (StaleFor(i, reg) /\ wk'[i] # wk[i]) =>
            /\ slot'[reg.idx].in_handler = slot[reg.idx].in_handler
            /\ slot'[reg.idx].handled_error = slot[reg.idx].handled_error
            /\ CopiesIn(reg, inprog') <= CopiesIn(reg, inprog)]_vars

\* the step is an allocation of slot h by __event_slot_alloc
Allocated(h) == slot[h].fd = -1 /\ slot'[h].fd # -1

\* the step runs event_slot_dealloc on slot h
DeallocStep(h) ==
    \/ app.pc = "dealloc" /\ app.idx = h /\ app'.pc # "dealloc"
    \/ hnd.pc = "dealloc" /\ hnd.idx = h /\ hnd'.pc # "dealloc"
    \/ \E i \in Pollers : wk[i].pc = "dealloc" /\ wk[i].ev.idx = h
                          /\ wk'[i].pc # "dealloc"

\* the unregister calls that return in the step
UnregisterReturns == hist'.unregd \ hist.unregd

\* C6 (generation monotonicity): the gen of a slot never decreases; it
\* is strictly greater after every allocation, every unregister and every
\* deallocation, so a registration never carries the (handle, gen) of
\* another one.
C6_GenMonotonic ==
    [][/\ \A h \in Handles :
            /\ slot'[h].gen >= slot[h].gen
            /\ (Allocated(h) \/ DeallocStep(h)) => slot'[h].gen > slot[h].gen
       /\ \A u \in UnregisterReturns : slot'[u.idx].gen > u.gen
       /\ \A reg \in hist'.regs \ hist.regs :
            /\ [idx |-> reg.idx, gen |-> reg.gen] \notin hist.unregd
            /\ \A r \in hist.regs : r.idx = reg.idx => r.gen # reg.gen]_vars

\* the death notifications the retiring poller has made for slot h
DeathCallsFor(h) == {k \in 1 .. Len(dying.calls) : dying.calls[k].slot = h}

\* C7 (death notification coverage): every slot that is on the poller-death
\* registry when the retiring poller takes it gets exactly one handler call
\* with poller_died set, the three readiness flags clear and gen equal to
\* the poller_gen of that retirement.
C7_DeathNotification ==
    /\ \A h \in SeqToSet(dying.taken) :
         /\ Cardinality(DeathCallsFor(h)) <= 1
         /\ dying.pc = "finish" => Cardinality(DeathCallsFor(h)) = 1
    /\ \A k \in 1 .. Len(dying.calls) :
         /\ dying.calls[k].poller_died
         /\ ~dying.calls[k].poll_in
         /\ ~dying.calls[k].poll_out
         /\ ~dying.calls[k].poll_err
         /\ dying.calls[k].gen = pool.poller_gen

\* the poller threads that exist and have not retired
Alive == {i \in Pollers : wk[i].pc # "none"}

\* spawning and retirements have settled: no thread is starting, retiring
\* or due to retire
Settled ==
    /\ dying.pc = "none"
    /\ \A i \in Pollers :
         \/ wk[i].pc = "none"
         \/ wk[i].pc = "wait" /\ i <= pool.eventthreadcount

\* event_dispatch has started its pollers and has not returned
Dispatching == disp \in {"spawned", "join"}

\* C8 (reconfigure convergence): after dispatch has started and
\* reconfigure_threads(k), k >= 1, was called outside destroy mode, the
\* pollers settle at exactly min(k, EVENT_MAX_THREADS) alive, also when a
\* grow is issued while pollers of an earlier shrink have not yet retired.
C8_ReconfigureConverges ==
    (Dispatching /\ ~pool.destroy /\ hist.nrec >= 1 /\ Settled)
        => Cardinality(Alive) = pool.eventthreadcount

\* destroy mode is on and reconfigure_threads has set the count to 0
DestroyMode == pool.destroy /\ pool.eventthreadcount = 0

\* no poller is left, event_dispatch has returned
Drained ==
    /\ \A i \in Pollers : wk[i].pc = "none"
    /\ dying.pc = "none"
    /\ disp = "done"
    /\ pool.activethreadcount = 0

DispatcherCounted == IF disp \in {"spawned", "join", "joined"} THEN 1 ELSE 0

\* C10 (activethreadcount tracks live workers), as claimed: once spawning
\* and retirements have settled activethreadcount is the number of live
\* pollers (2 after dispatch with 4 pollers and reconfigure_threads(2)).
C10_TracksWorkers == Settled => pool.activethreadcount = Cardinality(Alive)

\* C10, amended: once spawning and retirements have settled
\* activethreadcount is the number of live pollers plus one for the thread
\* inside event_dispatch (3 after dispatch with 4 pollers and
\* reconfigure_threads(2)).
C10_TracksWorkersAndDispatcher ==
    Settled => pool.activethreadcount = Cardinality(Alive) + DispatcherCounted

\* C10: dispatch with 4 pollers, one reconfigure_threads(2), two retirements
C10_Witness ==
    /\ Settled
    /\ disp = "join"
    /\ hist.nrec = 1
    /\ pool.eventthreadcount = 2
    /\ pool.poller_gen = 2
    /\ Alive = {1, 2}
    /\ pool.activethreadcount = 3

\* the step is the slot-lock section of event_select_on on a slot whose
\* handler is in progress
SelectDuringHandler ==
    /\ app.pc = "sel_lock"
    /\ app'.pc = "unref"
    /\ slot[app.idx].in_handler > 0

\* the step is the slot-lock section of event_handled, called for an
\* invocation of a registration whose select_on was deferred, and it arms
\* the fd
HandledArmsDeferred ==
    /\ hnd.pc = "lock"
    /\ hnd'.pc = "unref"
    /\ [idx |-> hnd.idx, gen |-> hnd.gen] \in hist.deferred
    /\ kern'[hnd.fd] # kern[hnd.fd]

\* the mask of a read registration after select_on(+1 write)
ReadWriteMask == BaseEvents \cup {"IN", "OUT"}

\* C11 (deferred select_on): select_on on a slot whose handler is in
\* progress makes no kernel call, and the re-arm of the event_handled that
\* follows carries the mask as select_on left it: read and write with the
\* always-on bits, under the payload (handle, gen) of the registration.
C11_DeferredSelect ==
    [][/\ SelectDuringHandler => kern' = kern
       /\ HandledArmsDeferred =>
            /\ kern'[hnd.fd].armed
            /\ kern'[hnd.fd].ev = ReadWriteMask
            /\ kern'[hnd.fd].idx = hnd.idx
            /\ kern'[hnd.fd].gen = hnd.gen]_vars

\* C11: event_handled has just re-armed, with read and write, an fd whose
\* select_on was deferred
C11_Witness ==
    /\ hnd.pc = "unref"
    /\ [idx |-> hnd.idx, gen |-> hnd.gen] \in hist.deferred
    /\ kern[hnd.fd].armed
    /\ kern[hnd.fd].ev = ReadWriteMask
    /\ kern[hnd.fd].gen = hnd.gen

\* C12 (error-storm suppression): once the handler of a registration was
\* invoked for an event with error or hangup, no later event invokes the
\* handler for that registration again; a registration made anew starts
\* with handled_error false.
C12_ErrorStorm ==
    [][/\ \A e \in hist.errd : \A fd \in Fds :
            LET tok == [idx |-> e.idx, fd |-> fd, gen |-> e.gen]
            IN CopiesIn(tok, inprog') <= CopiesIn(tok, inprog)
       /\ \A reg \in hist'.regs \ hist.regs :
            ~slot'[reg.idx].handled_error]_vars

\* C12: an error event of a registration whose handler was already called
\* for an error is turned away by the dispatch
C12_Witness ==
    \E i \in Pollers :
       /\ wk[i].pc = "unref"
       /\ wk[i].fd = -1
       /\ "ERR" \in wk[i].ev.bits
       /\ [idx |-> wk[i].ev.idx, gen |-> wk[i].ev.gen] \in hist.errd
       /\ wk[i].ev.gen = slot[wk[i].ev.idx].gen
       /\ slot[wk[i].ev.idx].handled_error
       /\ slot[wk[i].ev.idx].in_handler = 0

\* the (fd, handle) pairs for which a thread calls sys_close in the step,
\* as the releaser of the slot
ClosesInStep ==
    {c \in [fd : Fds, idx : Handles] :
        \/ app.pc = "close" /\ app'.pc # "close" /\ app.fd = c.fd /\ app.idx = c.idx
        \/ hnd.pc = "close" /\ hnd'.pc # "close" /\ hnd.ufd = c.fd /\ hnd.idx = c.idx
        \/ \E i \in Pollers : /\ wk[i].pc = "close" /\ wk'[i].pc # "close"
                              /\ wk[i].fd = c.fd /\ wk[i].ev.idx = c.idx}

\* the step is the slot-lock section of unregister or unregister_close
UnregisterLockStep == app.pc = "unreg_lock" /\ app'.pc = "unref"

\* C13 (close on last reference): do_close is set by the close variant of
\* unregister and by nothing else; the fd given to unregister_close is
\* closed once, by the releaser of the last reference, when no reference to
\* the slot is held; an fd that was only given to unregister is not closed.
C13_CloseOnLastRef ==
    [][/\ UnregisterLockStep =>
            /\ slot'[app.idx].do_close => app.close
            /\ (app.close /\ app'.ret = 0) => slot'[app.idx].do_close
       /\ \A h \in Handles :
            (slot'[h].do_close /\ ~slot[h].do_close) => UnregisterLockStep
       /\ \A c \in ClosesInStep :
            /\ c.fd \in hist.given
            /\ kern[c.fd].open
            /\ slot[c.idx].ref = 0]_vars

\* the step is the pool-mutex section of event_register
RegisterStep == app.pc = "idle" /\ hist'.nreg = hist.nreg + 1

\* C14 (pool closed): event_register called with destroy == 1 returns -1
\* and changes no slot, no table, nothing in the kernel and not the
\* poller-death list; no slot is allocated once destroy is set.
C14_PoolClosed ==
    [][/\ (RegisterStep /\ pool.destroy) =>
            /\ app'.pc = "idle" /\ app'.op = "register" /\ app'.ret < 0
            /\ slot' = slot
            /\ ereg' = ereg
            /\ kern' = kern
            /\ pool' = pool
       /\ \A h \in Handles : Allocated(h) => ~pool.destroy]_vars

\* C14: the first event_register of the run was made in destroy mode and
\* returned -1
C14_Witness ==
    /\ pool.destroy
    /\ hist.nreg = 1
    /\ app.pc = "idle" /\ app.op = "register" /\ app.ret = -1
    /\ \A h \in Handles : slot[h].gen = 0 /\ slot[h].fd = -1

\* a slot is free in some table
FreeSlotExists == \E h \in Handles : slot[h].fd = -1

\* C15 (capacity): event_register fails for lack of a slot only when no
\* slot is free in any table; while one is free it returns a handle, going
\* on to the next table when the earlier ones are full.
C15_Capacity ==
    [][(RegisterStep /\ ~pool.destroy /\ FreeSlotExists) =>
          /\ app'.pc = "reg_arm"
          /\ app'.idx \in Handles
          /\ slot[app'.idx].fd = -1]_vars

\* event_register returns after epoll_ctl(EPOLL_CTL_ADD) failed: the last
\* step of the event_slot_unref at line 414
RollbackReturns ==
    /\ app.op = "register"
    /\ app.pc \in {"unref", "dealloc"}
    /\ app'.pc = "idle"

\* C16 (register rollback): when the kernel rejects the ADD, event_register
\* returns a negative value with the slot free again (fd = -1, ref = 0, off
\* the poller-death list) and the table's slots_used as it was before the
\* call; and no handler invocation carries the handle and gen of such an attempt.
C16_RegisterRollback ==
    [][/\ RollbackReturns =>
             /\ app'.ret < 0
             /\ slot'[app.idx].fd = -1
             /\ slot'[app.idx].ref = 0
             /\ app.idx \notin SeqToSet(pool'.poller_death)
             /\ slot'[BaseOf(app.idx)].slots_used = app.used
       /\ \A tok \in BagToSet(inprog') :
             [idx |-> tok.idx, gen |-> tok.gen] \notin hist'.failed]_vars

\* the slot-lock section of unregister in which epoll_ctl(EPOLL_CTL_DEL)
\* failed
FailedDetachStep == UnregisterLockStep /\ app'.ret < 0

\* the (handle, gen) whose unregister returned after a failed DEL
UnregisteredUndetached == hist.unregd \cap hist.undetached

\* C17 (unregister with failed detach): when the DEL fails, unregister still
\* drops its two references and bumps the slot's gen, and once it has
\* returned no handler is invoked for the old (handle, gen).
C17_FailedDetach ==
    [][/\ FailedDetachStep =>
             /\ app'.n = 2
             /\ slot'[app.idx].gen > slot[app.idx].gen
       /\ \A e \in UnregisteredUndetached : \A fd \in Fds :
             LET tok == [idx |-> e.idx, fd |-> fd, gen |-> e.gen]
             IN CopiesIn(tok, inprog') <= CopiesIn(tok, inprog)]_vars

\* the slot-lock sections that issue a kernel call the kernel rejects
RegisterRejected ==
    app.pc = "reg_arm" /\ app'.pc \in {"idle", "unref"} /\ ~CanAdd(app.fd)

UnregisterRejected ==
    app.pc = "unreg_lock" /\ app'.pc = "unref" /\ ~CanMod(app.fd)

SelectOnRejected ==
    /\ app.pc = "sel_lock"
    /\ app'.pc = "unref"
    /\ slot[app.idx].in_handler = 0
    /\ ~CanMod(app.fd)

HandledRejected ==
    /\ hnd.pc = "lock"
    /\ hnd'.pc = "unref"
    /\ hnd.gen = slot'[hnd.idx].gen
    /\ slot'[hnd.idx].in_handler = 0
    /\ ~CanMod(hnd.fd)

\* the value an operation returns is the one it holds when it goes back to idle
AppReturnStep == app.pc \in {"unref", "dealloc", "close"} /\ app'.pc = "idle"

HandledReturnStep == hnd.pc \in {"unref", "dealloc", "close"} /\ hnd'.pc = "idle"

\* C18 (kernel failures reported): when the kernel rejects the ADD, MOD or
\* DEL an operation issues, that operation (register, select_on, unregister,
\* handled) returns a negative value to its caller.
C18_KernelFailuresReported ==
    [][/\ RegisterRejected => app'.ret < 0
       /\ UnregisterRejected => app'.ret < 0
       /\ SelectOnRejected => app'.ret < 0
       /\ HandledRejected => hnd'.ret < 0
       /\ AppReturnStep => app'.ret = app.ret
       /\ HandledReturnStep => hnd'.ret = hnd.ret]_vars

\* the slot-lock section of event_handled_epoll
HandledLockStep == hnd.pc = "lock" /\ hnd'.pc = "unref"

\* the registration handled is called for is one the application holds, or
\* one whose unregister has not reached its DEL yet
StillRegistered(idx, fd, gen) ==
    \/ [idx |-> idx, fd |-> fd, gen |-> gen] \in hist.regs
    \/ /\ app.op = "unregister"
       /\ app.pc = "unreg_lock"
       /\ app.idx = idx
       /\ app.gen = gen

WorkerHolds(h) ==
    \E i \in Pollers : wk[i].pc \in {"val", "call", "unref", "dealloc"}
                        /\ wk[i].ev.idx = h

HandledHolds(h) == hnd.pc \in {"lock", "unref", "dealloc", "abort"} /\ hnd.idx = h

AppHolds(h) == app.pc \notin {"idle", "close"} /\ app.idx = h

DyingHolds(h) == h \in SeqToSet(dying.list)

\* C20 (slot reclamation): once unregister has returned, and until a later
\* event_register takes it, a slot on which no thread holds a reference is
\* free: fd = -1 and ref = 0; so it is freed when unregister returns if no
\* reference is held, and otherwise when the last holder has released its
\* reference.
C20_SlotReclamation ==
    \A h \in hist.gone :
       (~AppHolds(h) /\ ~WorkerHolds(h) /\ ~HandledHolds(h) /\ ~DyingHolds(h))
       => (slot[h].fd = -1 /\ slot[h].ref = 0)

\* C21 (in_handler bounds): in_handler of every slot is 0 or 1 in every
\* reachable state; it is never negative and never above 1.
C21_InHandlerBounds == \A h \in Handles : slot[h].in_handler \in {0, 1}

\* the second critical section of a retirement has run
RetirementCompletes == dying.pc = "finish" /\ dying'.pc = "none"

\* the entries of a list are distinct
NoDuplicates(list) == Cardinality(SeqToSet(list)) = Len(list)

\* the allocated slots last taken with notify_poller_death
NotifyAllocated(sl) == {h \in hist.notify : sl[h].fd # -1}

\* C22 (death registry preserved): one retiring poller at a time holds the
\* spliced-out list (poller_death_sliced is set exactly while it does), and
\* when its retirement completes poller_death holds exactly the allocated
\* registrations made with notify_poller_death, each once.
C22_DeathRegistry ==
    [][/\ pool'.poller_death_sliced <=> dying'.pc # "none"
       /\ RetirementCompletes =>
             /\ NoDuplicates(pool'.poller_death)
             /\ SeqToSet(pool'.poller_death) = NotifyAllocated(slot')]_vars

\* a retirement has completed during which one registration was made with
\* notify_poller_death, and is on the registry, and another was unregistered,
\* and is off it; a registration made without notify is allocated
C22_Witness ==
    /\ dying.pc = "none"
    /\ pool.poller_gen >= 1
    /\ \E a, b \in Handles :
          /\ [idx |-> a, pgen |-> pool.poller_gen] \in hist.during
          /\ [idx |-> b, pgen |-> pool.poller_gen] \in hist.during
          /\ slot[a].fd = -1
          /\ a \notin SeqToSet(pool.poller_death)
          /\ slot[b].fd # -1
          /\ b \in SeqToSet(pool.poller_death)

\* the steps that run with event_pool->mutex held: the allocation of
\* event_register, event_slot_dealloc as called by event_slot_unref, and the
\* two critical sections of a retirement
PoolMutexStep ==
    \/ RegisterStep
    \/ app.pc = "dealloc" /\ app'.pc # "dealloc"
    \/ hnd.pc = "dealloc" /\ hnd'.pc # "dealloc"
    \/ \E i \in Pollers : wk[i].pc = "dealloc" /\ wk'[i].pc # "dealloc"
    \/ dying.pc = "none" /\ dying'.pc = "notify"
    \/ RetirementCompletes

\* C23 (nothing external under the pool mutex): a step made with the pool
\* mutex held performs no kernel arm, modify or detach and no close of an fd,
\* and invokes no handler.
C23_NothingUnderPoolMutex ==
    [][PoolMutexStep =>
          /\ kern' = kern
          /\ inprog' = inprog
          /\ Len(dying'.calls) <= Len(dying.calls)]_vars

\* a step in which thread t takes event_pool->mutex
TakesPoolMutex(t) == pool.mutex = "free" /\ pool'.mutex = t

\* some thread has lock operations left and none of them can make its next one
LockDeadlock ==
    /\ \E t \in LockThreads : Todo(t) # <<>>
    /\ \A t \in LockThreads : ~CanLockStep(t)

\* C24 (lock ordering): a thread that takes the pool mutex holds no slot
\* lock, and no interleaving of the operations and a retirement leaves
\* threads waiting for each other's locks.
C24_LockOrdering ==
    [][/\ \A t \in LockThreads :
             TakesPoolMutex(t) => HeldBy(t) \cap SlotLocks = {}
       /\ ~LockDeadlock']_vars

\* the retiring poller holds the pool mutex and a slot lock, the application
\* waits for the pool mutex after its own section on that slot, and another
\* thread waits for the slot lock
C24_Witness ==
    /\ pool.mutex = "retire"
    /\ slot[0].lock = "retire"
    /\ app.todo # <<>>
    /\ Head(app.todo) = Acq("pool")
    /\ hnd.todo # <<>>
    /\ Head(hnd.todo) = Acq("s0")

\* the slots of table t that are in use
UsedIn(t) ==
    {h \in Handles : TableOf(h) = t /\ slot[h].fd # -1}

\* C25 (bucket occupancy count): for every allocated table, slots_used (the
\* field of the table's slot 0) is the number of its slots with fd # -1 and
\* lies within 0 .. EVENT_EPOLL_SLOTS.
C25_OccupancyCount ==
    \A t \in Tables :
       ereg[t] =>
          /\ slot[t * EVENT_EPOLL_SLOTS].slots_used = Cardinality(UsedIn(t))
          /\ slot[t * EVENT_EPOLL_SLOTS].slots_used \in 0 .. EVENT_EPOLL_SLOTS

====
